---- MODULE Spec2Model ----
(***************************************************************************)
(* Model of libnetlink.c of smc-tools: the netlink socket handle           *)
(* (rtnl_open, rtnl_close), the dump receive loop (rtnl_dump), the         *)
(* attribute parser (parse_rtattr) and the diagnostic request sender       *)
(* (set_extension, sockdiag_send).                                         *)
(*                                                                         *)
(* Buffers are modelled byte by byte; header fields are decoded from the   *)
(* bytes in little-endian order, as the build for the supported targets    *)
(* reads them.  A read outside the receive buffer is a nondeterministic    *)
(* choice over a small set of values.                                      *)
(***************************************************************************)
EXTENDS Integers, Sequences, FiniteSets, TLC

(***************************************************************************)
(* Bounds of the model.                                                    *)
(***************************************************************************)
\* size of the receive buffer of rtnl_dump in bytes (32768 in the source)
BufSize == 40
\* most messages the peer sends during one rtnl_dump call
MaxSent == 3
\* most receives failing with EINTR/EAGAIN in one rtnl_dump call
MaxIntr == 1
\* most calls of rtnl_open, rtnl_close and sockdiag_send on the handle
MaxOps == 3
\* largest extension index passed to set_extension
MaxExt == 9
\* most attribute records in the buffer given to parse_rtattr
MaxAttrs == 3

(***************************************************************************)
(* Program constants.                                                      *)
(***************************************************************************)
EXIT_SUCCESS == 0
EXIT_FAILURE == 1
NLMSG_ALIGNTO == 4
NLMSG_HDRLEN == 16
NLMSGERR_SIZE == 20
NLMSG_ERROR == 2
NLMSG_DONE == 3
SOCK_DIAG_BY_FAMILY == 20
NLM_F_DUMP_INTR == 16
MSG_TRUNC == 32
EINTR == 4
EAGAIN == 11
ENOBUFS == 105
PF_SMC == 43
\* lowest descriptor number socket() can return (0, 1, 2 are the stdio ones)
FirstFd == 3
RTA_ALIGNTO == 4
RTATTR_SIZE == 4
\* the null pointer, as an offset no record has
NullPtr == -1

VARIABLES
    \* ---- rtnl_dump ----
    pc,          \* position in rtnl_dump: "again", "while", "after", "ret"
    buf,         \* char buf[32768]: sequence of BufSize bytes
    h,           \* struct nlmsghdr *h, as a byte offset from buf
    msglen,      \* int msglen
    found_done,  \* int found_done
    msg_flags,   \* msg.msg_flags as left by the last recvmsg
    ret,         \* value returned by rtnl_dump, -1 while it runs
    calls,       \* handler invocations so far, in order
    diag,        \* lines written to stderr, in order
    \* ---- the peer and the history of the run ----
    nrecv,       \* datagrams received so far
    nintr,       \* receives failed with EINTR/EAGAIN so far
    walked,      \* loop iterations begun since the last receive
    delivered,   \* messages of all datagrams the peer sent, in order
    clean,       \* every datagram so far untruncated, error-free, done last
    doneAt,      \* <<>> or <<#calls, #receives>> when done was first walked
    failAt,      \* <<>> or <<cause, #calls, #receives, nlmsg_len>> at the first
                 \* hard receive failure, zero length or walked error message
    gotLen,      \* bytes the most recent successful recvmsg returned
    errno,       \* errno as the last failed recvmsg set it
    termRecvd,   \* a done or error message arrived in an untruncated datagram
    lastHdr,     \* the header the last test of the while condition read
    \* ---- the handle and the process ----
    fd,          \* rth->fd
    rth_seq,     \* rth->seq
    local_ext,   \* static int local_ext
    openFds,     \* descriptors open in the process
    closeLog,    \* calls of close(): <<descriptor, was it open>>, in order
    sysLog,      \* steps the last rtnl_open performed, in order
    sent,        \* <<>> or the request the last sockdiag_send built
    sentExts,    \* indices given to set_extension before that request
    sendOk,      \* "none", or "ok"/"fail": what the last sendmsg did
    extCalled,   \* indices given to set_extension so far
    lastOp,      \* "none", "open", "close", "send", "dump": the last call on
                 \* the handle
    prevOp,      \* the call on the handle before that one
    opRet,       \* what that call returned (0 for rtnl_close)
    nops,        \* calls on the handle so far
    \* ---- parse_rtattr ----
    apc,         \* position in parse_rtattr: "start", "loop", "tail", "ret"
    abuf,        \* the bytes rta points to, len of them
    amax,        \* int max
    alen,        \* int len
    rta,         \* struct rtattr *rta, as a byte offset from its first value
    tb,          \* struct rtattr *tb[]: offsets, or NullPtr
    areads,      \* header fields read so far: <<offset, width>>
    adiag,       \* "Deficit" lines written: <<len, rta_len>>
    ain          \* the records and the trailing bytes the buffer was made of

dumpVars == <<pc, buf, h, msglen, found_done, msg_flags, ret, calls, diag,
              nrecv, nintr, walked, delivered, clean, doneAt, failAt,
              gotLen, errno, termRecvd, lastHdr>>

handleVars == <<fd, rth_seq, local_ext, openFds, closeLog, sysLog, sent,
                sentExts, sendOk, extCalled, lastOp, prevOp, opRet, nops>>

attrVars == <<apc, abuf, amax, alen, rta, tb, areads, adiag, ain>>

vars == <<dumpVars, handleVars, attrVars>>

(***************************************************************************)
(* Bytes and fields.                                                       *)
(***************************************************************************)
Min(a, b) == IF a < b THEN a ELSE b

RECURSIVE Pow(_, _)
Pow(b, e) == IF e = 0 THEN 1 ELSE b * Pow(b, e - 1)

\* the k bytes of n, least significant first
LE(n, k) == [i \in 1..k |-> (n \div Pow(256, i - 1)) % 256]

Zeros(k) == [i \in 1..k |-> 0]

\* the unsigned value of the w bytes of b at byte offset off (in bounds)
RECURSIVE Decode(_, _, _)
Decode(b, off, w) ==
    IF w = 0 THEN 0 ELSE b[off + 1] + 256 * Decode(b, off + 1, w - 1)

\* values a read of the w bytes at offset off of the receive buffer can
\* give: the bytes of the buffer, or whatever lies behind the buffer
FieldVals(b, off, w, garbage) ==
    IF off >= 0 /\ off + w <= BufSize THEN {Decode(b, off, w)} ELSE garbage

\* the headers h can point at: nlmsg_len, nlmsg_type, nlmsg_flags, nlmsg_seq
HdrReads(b, off) ==
    { [len |-> l, type |-> t, flags |-> f, seq |-> s] :
        l \in FieldVals(b, off, 4, {0, NLMSG_HDRLEN}),
        t \in FieldVals(b, off + 4, 2, {NLMSG_DONE, SOCK_DIAG_BY_FAMILY}),
        f \in FieldVals(b, off + 6, 2, {0}),
        s \in FieldVals(b, off + 8, 4, {0}) }

(***************************************************************************)
(* The netlink macros.                                                     *)
(***************************************************************************)
NLMSG_ALIGN(len) ==
    ((len + NLMSG_ALIGNTO - 1) \div NLMSG_ALIGNTO) * NLMSG_ALIGNTO

NLMSG_LENGTH(len) == len + NLMSG_HDRLEN

NLMSG_OK(nlmsg_len, len) ==
    /\ len >= NLMSG_HDRLEN
    /\ nlmsg_len >= NLMSG_HDRLEN
    /\ nlmsg_len <= len

HasFlag(flags, bit) == (flags \div bit) % 2 = 1

(***************************************************************************)
(* The peer: message templates and datagrams.                              *)
(***************************************************************************)
Template(l, t, f) == [len |-> l, type |-> t, flags |-> f]

Templates ==
    { Template(16, SOCK_DIAG_BY_FAMILY, 0),
      Template(16, SOCK_DIAG_BY_FAMILY, NLM_F_DUMP_INTR),
      Template(22, SOCK_DIAG_BY_FAMILY, 0),
      Template(16, NLMSG_DONE, 0),
      Template(16, NLMSG_DONE, NLM_F_DUMP_INTR),
      Template(20, NLMSG_ERROR, 0),
      Template(36, NLMSG_ERROR, 0) }

\* the datagrams of at most n messages
Datagrams(n) == UNION { [1..k -> Templates] : k \in 1..n }

\* bytes a message takes on the wire: the peer pads it to a multiple of 4
WireSize(len) == ((len + 3) \div 4) * 4

\* a message on the wire: header, payload, padding
MsgBytes(t, seq) ==
    LE(t.len, 4) \o LE(t.type, 2) \o LE(t.flags, 2) \o LE(seq, 4) \o LE(0, 4)
      \o Zeros(WireSize(t.len) - 16)

RECURSIVE DgramBytes(_, _)
DgramBytes(d, seq0) ==
    IF d = <<>> THEN <<>>
    ELSE MsgBytes(Head(d), seq0 + 1) \o DgramBytes(Tail(d), seq0 + 1)

DgramMsgs(d, seq0) ==
    [i \in 1..Len(d) |-> [len |-> d[i].len, type |-> d[i].type,
                          flags |-> d[i].flags, seq |-> seq0 + i]]

\* no error message, and a done message only as the last one
CleanDgram(d) ==
    \A i \in 1..Len(d) :
        /\ d[i].type # NLMSG_ERROR
        /\ d[i].type = NLMSG_DONE => i = Len(d)

(***************************************************************************)
(* rtnl_dump                                                               *)
(***************************************************************************)
DumpIdle ==
    /\ pc = "ret"
    /\ buf = Zeros(BufSize)
    /\ h = 0
    /\ msglen = 0
    /\ found_done = 0
    /\ msg_flags = 0
    /\ ret = -1
    /\ calls = <<>>
    /\ diag = <<>>
    /\ nrecv = 0
    /\ nintr = 0
    /\ walked = 0
    /\ delivered = <<>>
    /\ clean = TRUE
    /\ doneAt = <<>>
    /\ failAt = <<>>
    /\ gotLen = 0
    /\ errno = 0
    /\ termRecvd = FALSE
    /\ lastHdr = [len |-> 0, type |-> 0, flags |-> 0, ok |-> FALSE]

\* the handle as a successful rtnl_open leaves it
HandleOpened ==
    /\ fd = FirstFd
    /\ rth_seq = 1000
    /\ local_ext = 0
    /\ openFds = {FirstFd}
    /\ closeLog = <<>>
    /\ sysLog = <<>>
    /\ sent = <<>>
    /\ sentExts = {}
    /\ sendOk = "none"
    /\ extCalled = {}
    /\ lastOp = "open"
    /\ prevOp = "none"
    /\ opRet = 0
    /\ nops = 1

\* parse_rtattr not running
AttrIdle ==
    /\ apc = "ret"
    /\ abuf = <<>>
    /\ amax = 0
    /\ alen = 0
    /\ rta = 0
    /\ tb = [t \in 0..0 |-> NullPtr]
    /\ areads = {}
    /\ adiag = <<>>
    /\ ain = [recs |-> <<>>, tail |-> <<>>, cut |-> 0]

DumpInit ==
    /\ HandleOpened
    /\ AttrIdle
    /\ pc = "again"
    /\ buf = Zeros(BufSize)
    /\ h = 0
    /\ msglen = 0
    /\ found_done = 0
    /\ msg_flags = 0
    /\ ret = -1
    /\ calls = <<>>
    /\ diag = <<>>
    /\ nrecv = 0
    /\ nintr = 0
    /\ walked = 0
    /\ delivered = <<>>
    /\ clean = TRUE
    /\ doneAt = <<>>
    /\ failAt = <<>>
    /\ gotLen = 0
    /\ errno = 0
    /\ termRecvd = FALSE
    /\ lastHdr = [len |-> 0, type |-> 0, flags |-> 0, ok |-> FALSE]

\* recvmsg copies the datagram, cut to the size of the buffer
RecvLen(n) == Min(n, BufSize)

RecvFlags(n) == IF n > BufSize THEN MSG_TRUNC ELSE 0

\* recvmsg returns a datagram of the peer (lines 114, 115, 122)
Recv ==
    /\ pc = "again"
    /\ fd \in openFds
    /\ \E d \in Datagrams(MaxSent - Len(delivered)) :
         \E bytes \in {DgramBytes(d, Len(delivered))} :
         LET got == RecvLen(Len(bytes))
         IN /\ buf' = [i \in 1..BufSize |->
                         IF i <= got THEN bytes[i] ELSE buf[i]]
            /\ msglen' = got
            /\ msg_flags' = RecvFlags(Len(bytes))
            /\ delivered' = delivered \o DgramMsgs(d, Len(delivered))
            /\ clean' = (clean /\ CleanDgram(d) /\ Len(bytes) <= BufSize)
            /\ gotLen' = got
            /\ termRecvd' = (\/ termRecvd
                             \/ /\ Len(bytes) <= BufSize
                                /\ \E i \in 1..Len(d) :
                                      d[i].type \in {NLMSG_DONE, NLMSG_ERROR})
    /\ nrecv' = nrecv + 1
    /\ walked' = 0
    /\ pc' = "while"
    /\ UNCHANGED <<h, found_done, ret, calls, diag, nintr, doneAt, failAt,
                   errno, lastHdr>>

\* Transient repeating the receive for EINTR only
Transient_OnlyEINTR(e) == e = EINTR

\* errno values for which the receive is repeated (line 116)
Transient(e) == e = EINTR \/ e = EAGAIN

\* recvmsg fails (lines 115-121)
RecvFail ==
    /\ pc = "again"
    /\ \E e \in {EINTR, EAGAIN, ENOBUFS} :
         /\ errno' = e
         /\ failAt' = IF e \in {EINTR, EAGAIN} THEN failAt
                       ELSE <<"recv", Len(calls), nrecv, 0>>
         /\ IF Transient(e)
            THEN /\ nintr < MaxIntr
                 /\ nintr' = nintr + 1
                 /\ pc' = "again"
                 /\ UNCHANGED <<ret, diag, clean>>
            ELSE /\ diag' = Append(diag, "netlink receive error")
                 /\ ret' = EXIT_FAILURE
                 /\ pc' = "ret"
                 /\ clean' = FALSE
                 /\ UNCHANGED nintr
    /\ msglen' = -1
    /\ UNCHANGED <<buf, h, found_done, msg_flags, calls, nrecv, walked,
                   delivered, doneAt, gotLen, termRecvd, lastHdr>>

\* recvmsg returns 0 (lines 122-125)
RecvEOF ==
    /\ pc = "again"
    /\ fd \in openFds
    /\ msglen' = 0
    /\ diag' = Append(diag, "EOF on netlink")
    /\ ret' = EXIT_FAILURE
    /\ pc' = "ret"
    /\ clean' = FALSE
    /\ failAt' = <<"eof", Len(calls), nrecv, 0>>
    /\ UNCHANGED <<buf, h, found_done, msg_flags, calls, nrecv, nintr, walked,
                   delivered, doneAt, gotLen, errno, termRecvd, lastHdr>>

\* the diagnostic of an error message (lines 135-139)
ErrorDiag(nlmsg_len) ==
    IF nlmsg_len < NLMSG_LENGTH(NLMSGERR_SIZE)
    THEN "ERROR truncated" ELSE "RTNETLINK answers"

\* Dispatch without the branch for error messages
Dispatch_NoError(type) ==
    IF type = NLMSG_DONE THEN "done" ELSE "handler"

\* what one iteration does with a message that passed NLMSG_OK:
\* "done", "error" or "handler" (lines 130-142)
Dispatch(type) ==
    IF type = NLMSG_DONE THEN "done"
    ELSE IF type = NLMSG_ERROR THEN "error"
    ELSE "handler"

\* Iteration giving up the dump at a message flagged NLM_F_DUMP_INTR
Iteration_IntrAborts(type, flags) ==
    [warn |-> HasFlag(flags, NLM_F_DUMP_INTR),
     what |-> IF HasFlag(flags, NLM_F_DUMP_INTR) THEN "error"
              ELSE Dispatch(type)]

\* one iteration on a message that passed NLMSG_OK (lines 128-142): the
\* flag NLM_F_DUMP_INTR only writes a line, the type decides the rest
Iteration(type, flags) ==
    [warn |-> HasFlag(flags, NLM_F_DUMP_INTR),
     what |-> Dispatch(type)]

\* one test of the while condition and, if it holds, one iteration
\* (lines 127-144)
While ==
    /\ pc = "while"
    /\ walked' = walked + 1
    /\ \E hdr \in HdrReads(buf, h) :
         /\ lastHdr' = [len |-> hdr.len, type |-> hdr.type,
                        flags |-> hdr.flags, ok |-> NLMSG_OK(hdr.len, msglen)]
         /\ IF ~NLMSG_OK(hdr.len, msglen)
            THEN /\ pc' = "after"
                 /\ UNCHANGED <<h, msglen, found_done, ret, calls, diag, doneAt,
                                failAt>>
            ELSE LET it == Iteration(hdr.type, hdr.flags)
                     d1 == IF it.warn
                           THEN Append(diag, "Dump interrupted") ELSE diag
                     what == it.what
                 IN /\ doneAt' = IF hdr.type = NLMSG_DONE /\ doneAt = <<>>
                                  THEN <<Len(calls), nrecv>> ELSE doneAt
                    /\ failAt' = IF hdr.type = NLMSG_ERROR /\ failAt = <<>>
                                  THEN <<"error", Len(calls), nrecv, hdr.len>>
                                  ELSE failAt
                    /\ CASE what = "done" ->
                           /\ found_done' = 1
                           /\ diag' = d1
                           /\ pc' = "after"
                           /\ UNCHANGED <<h, msglen, ret, calls>>
                         [] what = "error" ->
                           /\ diag' = Append(d1, ErrorDiag(hdr.len))
                           /\ ret' = EXIT_FAILURE
                           /\ pc' = "ret"
                           /\ UNCHANGED <<h, msglen, found_done, calls>>
                         [] OTHER ->
                           /\ calls' = Append(calls, [off |-> h, len |-> hdr.len,
                                                      type |-> hdr.type,
                                                      flags |-> hdr.flags,
                                                      seq |-> hdr.seq,
                                                      left |-> msglen,
                                                      recv |-> nrecv,
                                                      got |-> gotLen])
                           /\ h' = h + NLMSG_ALIGN(hdr.len)
                           /\ msglen' = msglen - NLMSG_ALIGN(hdr.len)
                           /\ diag' = d1
                           /\ pc' = "while"
                           /\ UNCHANGED <<found_done, ret>>
    /\ UNCHANGED <<buf, msg_flags, nrecv, nintr, delivered, clean, gotLen,
                   errno, termRecvd>>

\* AfterPc without the test of found_done
AfterPc_NoDoneTest(flags, done) ==
    IF HasFlag(flags, MSG_TRUNC) THEN "again" ELSE "ret"

\* where the code goes after the loop: "again" or "ret" (lines 145-153)
AfterPc(flags, done) ==
    IF HasFlag(flags, MSG_TRUNC) THEN "again"
    ELSE IF done = 0 THEN "again"
    ELSE "ret"

\* AfterH without the reset of h to the start of the buffer
AfterH_NoReset(flags, done, hh) == hh

\* the value of h after the loop (lines 145-152)
AfterH(flags, done, hh) ==
    IF HasFlag(flags, MSG_TRUNC) THEN hh
    ELSE IF done = 0 THEN 0
    ELSE hh

\* after the loop (lines 145-153)
After ==
    /\ pc = "after"
    /\ pc' = AfterPc(msg_flags, found_done)
    /\ h' = AfterH(msg_flags, found_done, h)
    /\ diag' = IF HasFlag(msg_flags, MSG_TRUNC)
               THEN Append(diag, "Message truncated") ELSE diag
    /\ ret' = IF AfterPc(msg_flags, found_done) = "ret"
              THEN EXIT_SUCCESS ELSE ret
    /\ UNCHANGED <<buf, msglen, found_done, msg_flags, calls, nrecv, nintr,
                   walked, delivered, clean, doneAt, failAt, gotLen, errno,
                   termRecvd, lastHdr>>

DumpNext ==
    /\ Recv \/ RecvFail \/ RecvEOF \/ While \/ After
    /\ UNCHANGED <<handleVars, attrVars>>

SpecDump == DumpInit /\ [][DumpNext]_vars

(***************************************************************************)
(* Properties of rtnl_dump                                                 *)
(***************************************************************************)
\* what the handler saw of a message, as the peer sent it
Seen(c) == [len |-> c.len, type |-> c.type, flags |-> c.flags, seq |-> c.seq]

LastIsDone(s) == s # <<>> /\ s[Len(s)].type = NLMSG_DONE

\* C1: while every datagram received was untruncated and the stream holds
\* no error message and no message after a done message, the handler
\* invocations are, in order and once each, the messages delivered before
\* the done message; once the done message is delivered no receive is
\* attempted any more, and the call returns only then, with success.
C1_HandlerOncePerMessageInOrder ==
    clean =>
      /\ Len(calls) <= Len(delivered)
      /\ \A i \in 1..Len(calls) :
            /\ Seen(calls[i]) = delivered[i]
            /\ delivered[i].type # NLMSG_DONE
      /\ LastIsDone(delivered) => pc # "again"
      /\ pc = "ret" =>
            /\ ret = EXIT_SUCCESS
            /\ LastIsDone(delivered)
            /\ Len(calls) = Len(delivered) - 1

\* a clean run over two datagrams that returned after two handler
\* invocations, the first of them for a message of unaligned length
C1_Witness ==
    /\ clean /\ pc = "ret" /\ ret = EXIT_SUCCESS
    /\ nrecv = 2 /\ Len(calls) = 2
    /\ calls[1].len = 22 /\ calls[2].recv = 2

\* C2: after every receive the walk begins at offset 0 of the buffer.
C2_WalkStartsAtBufferStart ==
    (pc = "while" /\ walked = 0) => h = 0

\* C3: once a done message is walked there is no further handler
\* invocation and no further receive, and the call returns success.
C3_DoneCompletesDump ==
    doneAt # <<>> =>
      /\ Len(calls) = doneAt[1]
      /\ nrecv = doneAt[2]
      /\ pc # "again"
      /\ pc = "ret" => ret = EXIT_SUCCESS

\* C13: every handler invocation is for a message that starts and ends
\* within the bytes the most recent receive returned.
C13_HandlerOnlyOnReceivedBytes ==
    \A i \in 1..Len(calls) :
        /\ calls[i].off >= 0
        /\ calls[i].off + calls[i].len <= calls[i].got

\* bytes on the wire of the messages s[from + 1], ..., s[Len(s)]
RECURSIVE WireSum(_, _)
WireSum(s, from) ==
    IF from >= Len(s) THEN 0
    ELSE WireSize(s[from + 1].len) + WireSum(s, from + 1)

\* C14: a receive that fails with EINTR or EAGAIN changes nothing the
\* caller can see and nothing the rest of the dump depends on: the dump
\* stays at the receive with the same buffer, walk position, done flag,
\* handler invocations, diagnostics and return value; and the receive that
\* follows overwrites the length the failed one left behind with the length
\* of the datagram it returns.  Hence a run with such failures inserted has
\* the handler invocations and the return value of the run without them.
C14_TransientFailuresInvisible ==
    [][/\ (pc = "again" /\ msglen' = -1 /\ errno' \in {EINTR, EAGAIN}) =>
            /\ pc' = "again"
            /\ UNCHANGED <<buf, h, found_done, msg_flags, ret, calls, diag,
                           nrecv, walked, delivered, clean, doneAt, failAt,
                           gotLen, termRecvd, lastHdr>>
       /\ (pc = "again" /\ nrecv' = nrecv + 1) =>
            /\ msglen' = Min(WireSum(delivered', Len(delivered)), BufSize)
            /\ pc' = "while"
            /\ UNCHANGED <<h, found_done, ret, calls, diag>>]_vars

\* a dump that returned success after two datagrams and two handler
\* invocations, one receive having failed with EAGAIN
C14_Witness ==
    /\ nintr = 1 /\ errno = EAGAIN
    /\ pc = "ret" /\ ret = EXIT_SUCCESS
    /\ nrecv = 2 /\ Len(calls) = 2

\* C15: once the peer has delivered a done or an error message in a
\* datagram that was not truncated, the dump does not wait for another
\* datagram (it is on its way to return, or has returned); and it returns
\* only after a done or error message was delivered or a receive failed
\* for good or returned zero.
C15_ReturnsOnceTerminatorDelivered ==
    /\ termRecvd => pc # "again"
    /\ pc = "ret" =>
          \/ \E i \in 1..Len(delivered) :
                delivered[i].type \in {NLMSG_DONE, NLMSG_ERROR}
          \/ (failAt # <<>> /\ failAt[1] \in {"recv", "eof"})

\* C16: an iteration on a message flagged NLM_F_DUMP_INTR does what the
\* type of the message asks for: a done message ends the walk with the
\* done flag set, an error message makes the dump fail, any other message
\* goes to the handler and the walk moves on to the message behind it; the
\* flag adds the line "Dump interrupted" and nothing else, and the dump
\* never returns failure without a failed receive or an error message.
C16_DumpIntrTreatedByType ==
    [][/\ (/\ pc = "while" /\ walked' = walked + 1
           /\ lastHdr'.ok /\ HasFlag(lastHdr'.flags, NLM_F_DUMP_INTR)) =>
            /\ "Dump interrupted" \in {diag'[i] : i \in Len(diag) + 1..Len(diag')}
            /\ lastHdr'.type = NLMSG_DONE =>
                  /\ found_done' = 1 /\ pc' = "after"
                  /\ UNCHANGED <<calls, ret, h, msglen>>
            /\ lastHdr'.type = NLMSG_ERROR =>
                  /\ ret' = EXIT_FAILURE /\ pc' = "ret"
                  /\ UNCHANGED <<calls, found_done>>
            /\ lastHdr'.type \notin {NLMSG_DONE, NLMSG_ERROR} =>
                  /\ Len(calls') = Len(calls) + 1
                  /\ calls'[Len(calls')].off = h
                  /\ calls'[Len(calls')].flags = lastHdr'.flags
                  /\ calls'[Len(calls')].len = lastHdr'.len
                  /\ h' = h + NLMSG_ALIGN(lastHdr'.len)
                  /\ msglen' = msglen - NLMSG_ALIGN(lastHdr'.len)
                  /\ pc' = "while"
                  /\ UNCHANGED <<found_done, ret>>
       /\ ret' = EXIT_FAILURE => failAt' # <<>>]_vars

\* a dump that returned success after a flagged data message went to the
\* handler, followed by the handler invocation for the message behind it
C16_Witness ==
    /\ pc = "ret" /\ ret = EXIT_SUCCESS /\ Len(calls) = 2
    /\ HasFlag(calls[1].flags, NLM_F_DUMP_INTR)
    /\ calls[2].off = calls[1].off + 16 /\ calls[2].recv = calls[1].recv
    /\ diag = <<"Dump interrupted">>

\* C5: success is returned only if a done message was walked; a receive
\* failure other than EINTR/EAGAIN, a zero-length receive or a walked error
\* message makes the call return failure at once, with no receive and no
\* handler invocation after it.
C5_SuccessOnlyOnDoneFailureAtOnce ==
    /\ ret = EXIT_SUCCESS => (doneAt # <<>> /\ pc = "ret")
    /\ failAt # <<>> =>
          /\ pc = "ret"
          /\ ret = EXIT_FAILURE
          /\ Len(calls) = failAt[2]
          /\ nrecv = failAt[3]

\* a failed receive after a datagram whose messages went to the handler
C5_Witness ==
    /\ failAt # <<>> /\ failAt[1] \in {"recv", "eof"}
    /\ pc = "ret" /\ Len(calls) = 2 /\ nrecv = 1 /\ nintr = 1

\* C6: a walked error message, short or not, makes the dump return failure;
\* the handler is invoked neither for it nor for anything after it, and the
\* diagnostic says whether the error message was shorter than an error
\* structure.
C6_ErrorMessageAborts ==
    (failAt # <<>> /\ failAt[1] = "error") =>
      /\ pc = "ret"
      /\ ret = EXIT_FAILURE
      /\ Len(calls) = failAt[2]
      /\ \A i \in 1..Len(calls) : calls[i].type # NLMSG_ERROR
      /\ diag # <<>>
      /\ diag[Len(diag)] = IF failAt[4] < 36 THEN "ERROR truncated"
                                              ELSE "RTNETLINK answers"

\* a short error message walked in the second datagram, after two handler
\* invocations
C6_Witness ==
    /\ failAt # <<>> /\ failAt[1] = "error" /\ failAt[4] = 20
    /\ nrecv = 2 /\ Len(calls) = 2 /\ pc = "ret"

(***************************************************************************)
(* The handle: rtnl_open, rtnl_close, set_extension, sockdiag_send         *)
(***************************************************************************)
\* the handle before the first rtnl_open, with no descriptor
HandleInit ==
    /\ fd = -1
    /\ rth_seq = 0
    /\ local_ext = 0
    /\ openFds = {}
    /\ closeLog = <<>>
    /\ sysLog = <<>>
    /\ sent = <<>>
    /\ sentExts = {}
    /\ sendOk = "none"
    /\ extCalled = {}
    /\ lastOp = "none"
    /\ prevOp = "none"
    /\ opRet = 0
    /\ nops = 0

\* bitwise or of two non-negative integers
RECURSIVE BitOr(_, _)
BitOr(a, b) ==
    IF a = 0 THEN b
    ELSE IF b = 0 THEN a
    ELSE (IF a % 2 = 1 \/ b % 2 = 1 THEN 1 ELSE 0)
           + 2 * BitOr(a \div 2, b \div 2)

\* ExtBit with the index taken as the bit number
ExtBit_NoMinusOne(ext) == Pow(2, ext)

\* 1<<(ext-1) (line 35)
ExtBit(ext) == Pow(2, ext - 1)

\* the indices the callers pass to set_extension
ExtIndices == {1, 3, 8, MaxExt}

\* set_extension (lines 33-36)
set_extension ==
    \E ext \in ExtIndices :
        /\ local_ext' = BitOr(local_ext, ExtBit(ext))
        /\ extCalled' = extCalled \cup {ext}
        /\ UNCHANGED <<fd, rth_seq, openFds, closeLog, sysLog, sent, sentExts,
                       sendOk, lastOp, prevOp, opRet, nops>>

\* the steps of rtnl_open that can fail, in the order of the code
OpenSteps ==
    <<"socket", "SO_SNDBUF", "SO_RCVBUF", "bind", "getsockname",
      "addr_len", "nl_family">>

\* StepsDone going on after the step that fails
StepsDone_NoReturn(failing) ==
    [i \in 1..Len(OpenSteps) |-> <<OpenSteps[i], i # failing>>]
      \o << <<"seq", TRUE>> >>

\* the steps performed, each with its success, when step number failing
\* fails (8: none fails); the last step is the assignment of rth->seq
StepsDone(failing) ==
    [i \in 1..Min(failing, Len(OpenSteps)) |-> <<OpenSteps[i], i # failing>>]
      \o (IF failing > Len(OpenSteps) THEN << <<"seq", TRUE>> >> ELSE <<>>)

\* SeqAfterOpen assigning rth->seq before the steps that can fail
SeqAfterOpen_Early(failing, old, now) == now

\* rth->seq after rtnl_open (line 84)
SeqAfterOpen(failing, old, now) ==
    IF failing > Len(OpenSteps) THEN now ELSE old

\* the descriptor socket() returns: the lowest one not in use
NewFd(open) ==
    CHOOSE n \in FirstFd..(FirstFd + Cardinality(open)) :
        /\ n \notin open
        /\ \A m \in FirstFd..(n - 1) : m \in open

\* values of time(NULL)
Times == {1000, 1001}

\* rtnl_open (lines 38-86); failing is the number of the step that fails
rtnl_open ==
    /\ nops < MaxOps
    /\ \E failing \in 1..(Len(OpenSteps) + 1), now \in Times :
         /\ sysLog' = StepsDone(failing)
         /\ IF failing = 1
            THEN /\ fd' = -1
                 /\ UNCHANGED openFds
            ELSE /\ fd' = NewFd(openFds)
                 /\ openFds' = openFds \cup {NewFd(openFds)}
         /\ opRet' = IF failing <= Len(OpenSteps) THEN EXIT_FAILURE ELSE 0
         /\ rth_seq' = SeqAfterOpen(failing, rth_seq, now)
    /\ lastOp' = "open"
    /\ prevOp' = lastOp
    /\ nops' = nops + 1
    /\ UNCHANGED <<local_ext, closeLog, sent, sentExts, sendOk, extCalled>>

\* FdAfterClose leaving the descriptor in the handle
FdAfterClose_Kept(f) == f

\* rth->fd after rtnl_close (lines 90-93)
FdAfterClose(f) == IF f >= 0 THEN -1 ELSE f

\* rtnl_close (lines 88-94)
rtnl_close ==
    /\ nops < MaxOps
    /\ IF fd >= 0
       THEN /\ closeLog' = Append(closeLog, <<fd, fd \in openFds>>)
            /\ openFds' = openFds \ {fd}
       ELSE UNCHANGED <<closeLog, openFds>>
    /\ fd' = FdAfterClose(fd)
    /\ lastOp' = "close"
    /\ prevOp' = lastOp
    /\ opRet' = 0
    /\ nops' = nops + 1
    /\ UNCHANGED <<rth_seq, local_ext, sysLog, sent, sentExts, sendOk,
                   extCalled>>

\* the conversion of an int to the 8-bit field diag_ext (line 196)
ToU8(x) == x % 256

\* the conversion of an int to the 32-bit field cmd_ext (line 197); the
\* indices of the model keep local_ext within 0..2^31-1, where the
\* conversion changes nothing
ToU32(x) == x

\* the request sockdiag_send builds (lines 180-197)
Request(cmd, ext) ==
    [diag_family |-> PF_SMC, cmd |-> cmd,
     diag_ext |-> ToU8(ext), cmd_ext |-> ToU32(ext)]

\* commands of the callers
Cmds == {1, 2}

\* SendCloses never closing the descriptor
SendCloses_Never(ok) == FALSE

\* whether sockdiag_send closes the descriptor (lines 199-201): when
\* sendmsg returned a negative value
SendCloses(ok) == ~ok

\* what sockdiag_send returns (lines 202 and 204)
SendRet(ok) == IF ok THEN 0 ELSE EXIT_FAILURE

\* sockdiag_send(rth->fd, cmd) (lines 172-205); sendmsg can succeed only
\* on an open descriptor
sockdiag_send ==
    /\ nops < MaxOps
    /\ \E cmd \in Cmds, ok \in BOOLEAN :
         /\ ok => fd \in openFds
         /\ sent' = Request(cmd, local_ext)
         /\ sentExts' = extCalled
         /\ sendOk' = IF ok THEN "ok" ELSE "fail"
         /\ IF SendCloses(ok)
            THEN /\ closeLog' = Append(closeLog, <<fd, fd \in openFds>>)
                 /\ openFds' = openFds \ {fd}
            ELSE UNCHANGED <<closeLog, openFds>>
         /\ opRet' = SendRet(ok)
    /\ lastOp' = "send"
    /\ prevOp' = lastOp
    /\ nops' = nops + 1
    /\ UNCHANGED <<fd, rth_seq, local_ext, sysLog, extCalled>>

\* rtnl_dump as the handle sees it (lines 96-154): it reads rth->fd for
\* recvmsg (line 114), assigns no field of rth and closes nothing; it can
\* return success only if the descriptor is open
rtnl_dump ==
    /\ nops < MaxOps
    /\ \E r \in {EXIT_SUCCESS, EXIT_FAILURE} :
         /\ r = EXIT_SUCCESS => fd \in openFds
         /\ opRet' = r
    /\ lastOp' = "dump"
    /\ prevOp' = lastOp
    /\ nops' = nops + 1
    /\ UNCHANGED <<fd, rth_seq, local_ext, openFds, closeLog, sysLog, sent,
                   sentExts, sendOk, extCalled>>

HandleNext ==
    /\ set_extension \/ rtnl_open \/ rtnl_close \/ sockdiag_send \/ rtnl_dump
    /\ UNCHANGED <<dumpVars, attrVars>>

HandleSpecInit == DumpIdle /\ AttrIdle /\ HandleInit

SpecHandle == HandleSpecInit /\ [][HandleNext]_vars

(***************************************************************************)
(* Properties of the handle and of the requests                            *)
(***************************************************************************)
\* C4: after rtnl_open returned failure the descriptor of the handle does
\* not refer to an open socket.
C4_FailedOpenLeavesNoOpenSocket ==
    (lastOp = "open" /\ opRet = EXIT_FAILURE) => fd \notin openFds

\* the order of the steps of rtnl_open
OpenOrder ==
    <<"socket", "SO_SNDBUF", "SO_RCVBUF", "bind", "getsockname",
      "addr_len", "nl_family", "seq">>

\* C11: rtnl_open performs its steps in the order socket, SO_SNDBUF,
\* SO_RCVBUF, bind, getsockname, address length, address family; no step
\* follows a step that failed, failure is returned exactly when the last
\* step performed failed, and the sequence counter is assigned, as the last
\* step, only when all of them succeeded.
C11_OpenStopsAtFirstFailure ==
    lastOp = "open" =>
      LET n == Len(sysLog)
      IN /\ n \in 1..Len(OpenOrder)
         /\ \A i \in 1..n : sysLog[i][1] = OpenOrder[i]
         /\ \A i \in 1..(n - 1) : sysLog[i][2]
         /\ opRet = (IF sysLog[n][2] THEN 0 ELSE EXIT_FAILURE)
         /\ sysLog[n][2] <=> n = Len(OpenOrder)
         /\ ~sysLog[1][2] => (n = 1 /\ fd = -1)

\* an rtnl_open whose socket creation failed, after an rtnl_open that
\* succeeded
C11_Witness ==
    /\ lastOp = "open" /\ prevOp = "open" /\ opRet = EXIT_FAILURE
    /\ sysLog = << <<"socket", FALSE>> >>
    /\ fd = -1 /\ rth_seq # 0

\* C12: sockdiag_send calls close on the descriptor it was given and
\* returns failure exactly when sendmsg failed; when sendmsg succeeded it
\* returns 0, calls no close and the descriptor is still open.
C12_SendClosesExactlyOnFailure ==
    [][(lastOp' = "send" /\ nops' = nops + 1) =>
         IF sendOk' = "fail"
         THEN /\ closeLog' = Append(closeLog, <<fd, fd \in openFds>>)
              /\ fd \notin openFds'
              /\ opRet' = EXIT_FAILURE
         ELSE /\ sendOk' = "ok"
              /\ closeLog' = closeLog
              /\ openFds' = openFds
              /\ fd \in openFds'
              /\ opRet' = 0]_vars

\* a sockdiag_send on the open descriptor 3 whose sendmsg failed
C12_Witness ==
    /\ lastOp = "send" /\ sendOk = "fail" /\ opRet = EXIT_FAILURE
    /\ closeLog = << <<FirstFd, TRUE>> >>
    /\ fd = FirstFd /\ openFds = {}

\* C17: rth->seq changes only in an rtnl_open that returns success;
\* rtnl_dump, sockdiag_send, rtnl_close and an rtnl_open that returns
\* failure leave it as it was, and rtnl_dump also leaves rth->fd as it was
\* and closes no descriptor.
C17_SeqWrittenOnlyBySuccessfulOpen ==
    [][/\ rth_seq' # rth_seq =>
            (lastOp' = "open" /\ nops' = nops + 1 /\ opRet' = 0)
       /\ (nops' = nops + 1 /\ ~(lastOp' = "open" /\ opRet' = 0)) =>
            rth_seq' = rth_seq
       /\ (nops' = nops + 1 /\ lastOp' = "dump") =>
            UNCHANGED <<fd, openFds, closeLog>>]_vars

\* an rtnl_open that failed at bind, after an rtnl_dump on the handle a
\* first rtnl_open had filled: the sequence number is still the first one
C17_Witness ==
    /\ lastOp = "open" /\ prevOp = "dump" /\ opRet = EXIT_FAILURE
    /\ Len(sysLog) = 4
    /\ rth_seq = 1001

\* C18: the calls of close never name a descriptor that an earlier call
\* of close released and that no socket() returned again since.
C18_NoDescriptorClosedTwice ==
    \A j \in 1..Len(closeLog) : \A i \in 1..(j - 1) :
        (closeLog[i][1] = closeLog[j][1] /\ closeLog[i][2]) => closeLog[j][2]

\* C7: a step of rtnl_close sets the descriptor to -1; it releases the
\* descriptor, once, exactly when it was non-negative, and on a closed
\* handle it changes nothing; an rtnl_close right after an rtnl_close
\* changes nothing.
C7_CloseReleasesThenNoOp ==
    [][ (lastOp' = "close" /\ nops' = nops + 1) =>
          /\ fd' = -1
          /\ IF fd >= 0
             THEN /\ closeLog' = Append(closeLog, <<fd, fd \in openFds>>)
                  /\ openFds' = openFds \ {fd}
             ELSE UNCHANGED <<fd, openFds, closeLog>>
          /\ lastOp = "close" => UNCHANGED <<fd, openFds, closeLog>>
          /\ UNCHANGED <<rth_seq, local_ext, sent>> ]_vars

\* an rtnl_close right after the rtnl_close that released the descriptor
\* of an opened handle
C7_Witness ==
    /\ lastOp = "close" /\ prevOp = "close" /\ nops = 3
    /\ fd = -1 /\ closeLog = << <<FirstFd, TRUE>> >> /\ openFds = {}

\* the bitmask with bit n-1 set for every n of S
RECURSIVE MaskOf(_)
MaskOf(S) ==
    IF S = {} THEN 0
    ELSE LET n == CHOOSE m \in S : TRUE
         IN Pow(2, n - 1) + MaskOf(S \ {n})

\* C8 as stated: the bitmask has exactly the bits n-1 of the indices given
\* to set_extension, and every request carries it in both diag_ext and
\* cmd_ext.
C8_BothFieldsCarryExactMask ==
    /\ local_ext = MaskOf(extCalled)
    /\ sent # <<>> =>
          /\ sent.diag_ext = MaskOf(sentExts)
          /\ sent.cmd_ext = MaskOf(sentExts)

\* C8 amended: the bitmask has exactly the bits n-1 of the indices given
\* to set_extension so far (so no bit is ever cleared); every request
\* carries it in cmd_ext, and in diag_ext the bits of the indices up to 8.
C8_WideExactNarrowLowBits ==
    /\ local_ext = MaskOf(extCalled)
    /\ sent # <<>> =>
          /\ sent.cmd_ext = MaskOf(sentExts)
          /\ sent.diag_ext = MaskOf({n \in sentExts : n <= 8})

\* a request sent after set_extension(1), set_extension(3) and
\* set_extension of an index above 8
C8_Witness ==
    /\ sent # <<>> /\ lastOp = "send" /\ opRet = 0
    /\ sentExts = {1, 3, MaxExt}
    /\ sent.diag_ext = 5 /\ sent.cmd_ext > 255

(***************************************************************************)
(* parse_rtattr                                                            *)
(***************************************************************************)
RTA_ALIGN(len) == ((len + RTA_ALIGNTO - 1) \div RTA_ALIGNTO) * RTA_ALIGNTO

\* RTA_OK without the test that the record fits the remaining length
RTA_OK_NoFit(rta_len, len) ==
    /\ len >= RTATTR_SIZE
    /\ rta_len >= RTATTR_SIZE

RTA_OK(rta_len, len) ==
    /\ len >= RTATTR_SIZE
    /\ rta_len >= RTATTR_SIZE
    /\ rta_len <= len

\* the records of the callers' buffers: rta_len and rta_type
Attr(l, t) == [len |-> l, type |-> t]

AttrTemplates == { Attr(l, t) : l \in {4, 6}, t \in 0..2 }

AttrSeqs == UNION { [1..n -> AttrTemplates] : n \in 0..MaxAttrs }

\* trailing bytes that form no record: one byte, three bytes, a header
\* with rta_len below the header size, a header with rta_len beyond the end
AttrTails == { <<>>, <<7>>, <<8, 0, 1>>, <<2, 0, 1, 0>>, <<12, 0, 1, 0>> }

\* a record in the buffer: header, payload, padding
AttrBytes(a) ==
    LE(a.len, 2) \o LE(a.type, 2) \o Zeros(WireSize(a.len) - 4)

RECURSIVE AttrSeqBytes(_)
AttrSeqBytes(recs) ==
    IF recs = <<>> THEN <<>>
    ELSE AttrBytes(Head(recs)) \o AttrSeqBytes(Tail(recs))

\* the padding after the last record, which a buffer may leave out
LastPad(recs) ==
    IF recs = <<>> THEN 0
    ELSE WireSize(recs[Len(recs)].len) - recs[Len(recs)].len

AttrInputs ==
    { [recs |-> r, tail |-> t, cut |-> c] :
        r \in AttrSeqs, t \in AttrTails, c \in {0, 2} }

\* the bytes of an input: the records, without the last padding when it is
\* cut, then the trailing bytes
InputBytes(in) ==
    LET all == AttrSeqBytes(in.recs)
    IN SubSeq(all, 1, Len(all) - in.cut) \o in.tail

\* a table with arbitrary earlier contents, and an empty one
OldTables(max) ==
    { [t \in 0..max |-> 99], [t \in 0..max |-> NullPtr] }

AttrInit ==
    /\ apc = "start"
    /\ ain \in { in \in AttrInputs :
                   in.cut # 0 => (in.tail = <<>> /\ LastPad(in.recs) = in.cut) }
    /\ abuf = InputBytes(ain)
    /\ alen = Len(abuf)
    /\ amax \in {1, 2}
    /\ tb \in OldTables(amax)
    /\ rta = 0
    /\ areads = {}
    /\ adiag = <<>>

\* values a read of w bytes at offset off can give: the bytes of the
\* buffer, or whatever lies behind the len bytes given
AttrFieldVals(b, off, w, garbage) ==
    IF off >= 0 /\ off + w <= Len(b) THEN {Decode(b, off, w)} ELSE garbage

\* memset(tb, 0, ...) (line 161)
AttrMemset ==
    /\ apc = "start"
    /\ tb' = [t \in 0..amax |-> NullPtr]
    /\ apc' = "loop"
    /\ UNCHANGED <<abuf, amax, alen, rta, areads, adiag, ain>>

\* Store replacing an entry already set
Store_LastWins(table, type, max, at) ==
    IF type <= max THEN [table EXCEPT ![type] = at] ELSE table

\* the table after the record of the given type at offset at (lines 164-165)
Store(table, type, max, at) ==
    IF type <= max /\ table[type] = NullPtr
    THEN [table EXCEPT ![type] = at] ELSE table

\* one test of RTA_OK and, if it holds, one iteration (lines 162-167);
\* rta_len is read only when len holds a header
AttrLoop ==
    /\ apc = "loop"
    /\ IF alen < RTATTR_SIZE
       THEN /\ apc' = "tail"
            /\ UNCHANGED <<alen, rta, tb, areads>>
       ELSE \E rta_len \in AttrFieldVals(abuf, rta, 2, {0, 4}) :
              IF ~RTA_OK(rta_len, alen)
              THEN /\ apc' = "tail"
                   /\ areads' = areads \cup {<<rta, 2>>}
                   /\ UNCHANGED <<alen, rta, tb>>
              ELSE \E type \in AttrFieldVals(abuf, rta + 2, 2, {0, 1}) :
                     /\ tb' = Store(tb, type, amax, rta)
                     /\ rta' = rta + RTA_ALIGN(rta_len)
                     /\ alen' = alen - RTA_ALIGN(rta_len)
                     /\ areads' = areads \cup {<<rta, 2>>, <<rta + 2, 2>>}
                     /\ apc' = "loop"
    /\ UNCHANGED <<abuf, amax, adiag, ain>>

\* the diagnostic after the loop (lines 168-169)
AttrDeficit ==
    /\ apc = "tail"
    /\ IF alen # 0
       THEN \E rta_len \in AttrFieldVals(abuf, rta, 2, {0, 4}) :
              /\ adiag' = Append(adiag, <<alen, rta_len>>)
              /\ areads' = areads \cup {<<rta, 2>>}
       ELSE UNCHANGED <<adiag, areads>>
    /\ apc' = "ret"
    /\ UNCHANGED <<abuf, amax, alen, rta, tb, ain>>

AttrNext ==
    /\ AttrMemset \/ AttrLoop \/ AttrDeficit
    /\ UNCHANGED <<dumpVars, handleVars>>

AttrSpecInit == DumpIdle /\ HandleInit /\ AttrInit

SpecAttr == AttrSpecInit /\ [][AttrNext]_vars

(***************************************************************************)
(* Properties of parse_rtattr                                              *)
(***************************************************************************)
\* the offset of record i of a sequence of records
RECURSIVE RecOff(_, _)
RecOff(recs, i) ==
    IF i = 1 THEN 0 ELSE RecOff(recs, i - 1) + WireSize(recs[i - 1].len)

\* the table that maps a type to its first record
FirstOfType(recs, max) ==
    [t \in 0..max |->
        IF \E i \in 1..Len(recs) : recs[i].type = t
        THEN RecOff(recs, CHOOSE i \in 1..Len(recs) :
                            /\ recs[i].type = t
                            /\ \A j \in 1..(i - 1) : recs[j].type # t)
        ELSE NullPtr]

\* C9: over a buffer of complete records the returned table maps every
\* type of 0..max to the first record of that type, or to null when there
\* is none, whatever the table held before; records of a type above max
\* leave no entry.
C9_FirstRecordOfEachType ==
    (apc = "ret" /\ ain.tail = <<>>) =>
      /\ DOMAIN tb = 0..amax
      /\ tb = FirstOfType(ain.recs, amax)

\* a table parsed from three records: two of type 1 and, between them, one
\* of a type above max
C9_Witness ==
    /\ apc = "ret" /\ ain.tail = <<>> /\ amax = 1
    /\ Len(ain.recs) = 3
    /\ ain.recs[1].type = 1 /\ ain.recs[2].type = 2 /\ ain.recs[3].type = 1
    /\ tb[1] = 0 /\ tb[0] = NullPtr

\* C10: when the buffer ends with bytes that form no complete record, the
\* walk stops at these bytes, the table holds exactly the entries of the
\* records before them, and one diagnostic is written.
C10_TrailingBytesKeepTable ==
    (apc = "ret" /\ ain.tail # <<>>) =>
      /\ tb = FirstOfType(ain.recs, amax)
      /\ rta = Len(abuf) - Len(ain.tail)
      /\ alen = Len(ain.tail)
      /\ Len(adiag) = 1
      /\ adiag[1][1] = Len(ain.tail)

\* two records followed by a header whose rta_len reaches beyond the end
C10_Witness ==
    /\ apc = "ret" /\ ain.tail = <<12, 0, 1, 0>> /\ amax = 2
    /\ Len(ain.recs) = 2 /\ tb[0] = 0 /\ tb[2] = 8 /\ tb[1] = NullPtr
    /\ Len(adiag) = 1

\* C19: every header field parse_rtattr reads, in the walk and for the
\* "Deficit" line after it, lies within the len bytes of the buffer.
C19_HeaderReadsWithinBuffer ==
    \A r \in areads : r[1] >= 0 /\ r[1] + r[2] <= Len(abuf)

====
